---- MODULE Spec2Model ----
(***************************************************************************)
(* A model of the Melodify HTTP API (src/server.js): an express server     *)
(* whose handlers are async functions.  Every `await` of a call on the     *)
(* supabase client is a suspension point: the remote call takes effect at  *)
(* the store, the handler resumes with its result and runs to its next     *)
(* `await` or to its response.  One action of the model is one such        *)
(* segment.  The remote store (tables, storage buckets, identity provider) *)
(* is the shared state; a remote call either succeeds or returns           *)
(* {error}, chosen nondeterministically (supabase-js reports failures in   *)
(* its result and does not throw).                                          *)
(***************************************************************************)
EXTENDS Integers, Sequences, FiniteSets, TLC

\* ------------------------------------------------------------------ bounds
\* Requests the event loop holds at once.
MaxSlots == 2
\* Ids the songs_metadata table can hand out.
MaxSongs == 2
\* Rows liked_songs can hold for one (user_id, song_id) pair.
MaxRows == 2
\* Rows of the playlists table, and of playlist_songs.
MaxPlaylists == 1
\* Values Date.now() takes.
MaxNow == 1

Slots == 1..MaxSlots
SongIds == 1..MaxSongs
Users == {"u1", "u2"}
NoUser == "none"

\* ------------------------------------------------------------- the routes
SongsGet == "GET /songs"
UploadAudio == "POST /upload/audio"
UploadReelAudio == "POST /upload/reel_audio"
UploadCover == "POST /upload/cover"
SongsPost == "POST /songs"
AuthSession == "GET /auth/session"
AuthLogout == "POST /auth/logout"
Profile == "GET /profile"
ToggleLike == "POST /songs/:songId/toggle-like"
LikesCount == "GET /songs/:songId/likes-count"
MeLikes == "GET /me/likes"
PlaylistsPost == "POST /playlists"
PlaylistSongsPost == "POST /playlists/:id/songs"
MePlaylists == "GET /me/playlists"

\* The routes registered with the authenticateUser middleware.
ProtectedRoutes ==
  {AuthSession, AuthLogout, Profile, ToggleLike, MeLikes, PlaylistsPost,
   PlaylistSongsPost, MePlaylists}

UploadRoutes == {UploadAudio, UploadReelAudio, UploadCover}

\* ------------------------------------------------- request headers, bodies
\* A header value is a string, modelled as a sequence of pieces: the piece
\* "Bearer " and the pieces that are a token's text.
Bearer == "Bearer "

\* The Authorization header of a request: absent, or a string.
NoHeader == [present |-> FALSE, val |-> <<>>]

HeaderOf(v) == [present |-> TRUE, val |-> v]

Headers ==
  {NoHeader} \cup
  {HeaderOf(v) : v \in {<<Bearer>>, <<Bearer, "t1">>, <<Bearer, "t2">>,
                        <<Bearer, "bad">>, <<"t1">>}}

\* String.prototype.replace(piece, ""): the first occurrence is removed.
RECURSIVE Replace(_, _)
Replace(str, piece) ==
  IF str = <<>> THEN <<>>
  ELSE IF Head(str) = piece THEN Tail(str)
  ELSE <<Head(str)>> \o Replace(Tail(str), piece)

\* req.headers.authorization?.replace("Bearer ", ""): undefined when the
\* header is absent.
TokenOf(hdr) ==
  IF hdr.present THEN HeaderOf(Replace(hdr.val, Bearer)) ELSE NoHeader

\* !token: undefined and the empty string are falsy.
Falsy(tok) == ~tok.present \/ tok.val = <<>>

\* The identity provider's sessions: the user a token's text belongs to.
TokenUser(val) ==
  CASE val = <<"t1">> -> "u1"
    [] val = <<"t2">> -> "u2"
    [] OTHER -> NoUser

\* The multipart file of a request: none, or its original name's extension.
NoFile == "none"

Files == {NoFile, ".mp3"}

\* A body field: absent, the empty string, or a non-empty value.
Vals == {"undefined", "", "v"}

\* !field
Missing(v) == v \in {"undefined", ""}

BodyFields == {"title", "artist", "audio_url", "cover_url", "name"}

NoBody == [f \in BodyFields |-> "undefined"]

\* -------------------------------------------------------------- the state
VARIABLES
  reqs,           \* the requests in flight or answered, by slot
  songs,          \* songs_metadata: the ids of its rows
  likes,          \* liked_songs: the number of rows per <<user_id, song_id>>
  playlists,      \* playlists: the number of rows per user_id
  playlist_songs, \* playlist_songs: the number of rows
  buckets,        \* storage: the object names held by each bucket
  now,            \* Date.now()
  likes0          \* liked_songs as it was when the server started

vars ==
  <<reqs, songs, likes, playlists, playlist_songs, buckets, now, likes0>>

stores == <<songs, likes, playlists, playlist_songs, buckets>>

Buckets == {"songs", "reel_audio", "covers"}

\* No object name synthesized (yet).
NoName == [prefix |-> "", time |-> 0, ext |-> ""]

\* The identity provider has not been asked (yet).
NoAuth == [error |-> FALSE, user |-> NoUser]

\* A slot no request occupies.
IdleReq ==
  [route |-> "", pc |-> "idle", hdr |-> NoHeader, songId |-> 0,
   body |-> NoBody, file |-> NoFile, auth |-> NoAuth, user |-> NoUser,
   songData |-> FALSE,
   likeData |-> FALSE, liked |-> TRUE, status |-> 0, error |-> "",
   wrote |-> FALSE, count |-> -1, fileName |-> NoName, calls |-> <<>>]

\* Whether slot s holds a request whose handler has not answered yet.
InFlight(s) == reqs[s].pc \notin {"idle", "done"}

RECURSIVE SumOver(_, _)
SumOver(f, S) ==
  IF S = {} THEN 0
  ELSE LET x == CHOOSE y \in S : TRUE
       IN f[x] + SumOver(f, S \ {x})

\* select("*", {count: "exact", head: true}).eq("song_id", songId)
SongLikes(tbl, songId) ==
  SumOver([u \in Users |-> tbl[<<u, songId>>]], Users)

Init ==
  /\ reqs = [s \in Slots |-> IdleReq]
  /\ songs = {1}
  /\ likes = [p \in Users \X SongIds |-> 0]
  /\ playlists = [u \in Users |-> 0]
  /\ playlist_songs = 0
  /\ buckets = [b \in Buckets |-> {}]
  /\ now = 0
  /\ likes0 = likes

\* The server starts over any liked_songs table the toggles can have left:
\* at most one row per pair, for songs that exist.
InitAny ==
  /\ reqs = [s \in Slots |-> IdleReq]
  /\ songs = {1}
  /\ likes \in [Users \X SongIds -> {0, 1}]
  /\ \A p \in Users \X SongIds : p[2] \notin songs => likes[p] = 0
  /\ playlists = [u \in Users |-> 0]
  /\ playlist_songs = 0
  /\ buckets = [b \in Buckets |-> {}]
  /\ now = 0
  /\ likes0 = likes

\* ------------------------------------------------------ handler segments
\* res.status(status).json({error}) or res.json(...): the handler is over.
Answer(r, status, error) ==
  [r EXCEPT !.pc = "done", !.status = status, !.error = error]

\* The request as it suspends at the remote call named pc.
Await(r, pc) == [r EXCEPT !.pc = pc]

\* The remote call a suspended request has issued is recorded as it is served.
Called(r, call) == [r EXCEPT !.calls = Append(@, call)]

\* A request as express hands it to its first handler.
NewReq(route, hdr, songId, body, file) ==
  [IdleReq EXCEPT !.route = route, !.pc = "start", !.hdr = hdr,
                  !.songId = songId, !.body = body, !.file = file]

\* authenticateUser up to its await: the token check.
AuthStartNoCheck(r) == Await(r, "getUser")

AuthStart(r) ==
  IF Falsy(TokenOf(r.hdr))
  THEN Answer(r, 401, "Missing auth token")
  ELSE Await(r, "getUser")

\* POST /auth/logout up to its await.
LogoutStart(r) ==
  IF Falsy(TokenOf(r.hdr))
  THEN Answer(r, 400, "Missing auth token")
  ELSE Await(r, "signOut")

\* POST /songs/:songId/toggle-like up to its first await.
ToggleLikeStart(r) == Await(r, "songFetch")

\* POST /playlists up to its await.
PlaylistsPostStart(r) ==
  IF Missing(r.body.name)
  THEN Answer(r, 400, "Playlist name required")
  ELSE Await(r, "playlistInsert")

\* next(): the route's handler runs up to its first await, or to its answer.
HandlerStart(r) ==
  CASE r.route = AuthSession -> Answer(r, 200, "")
    [] r.route = Profile -> Answer(r, 200, "")
    [] r.route = AuthLogout -> LogoutStart(r)
    [] r.route = ToggleLike -> ToggleLikeStart(r)
    [] r.route = MeLikes -> Await(r, "meLikes")
    [] r.route = PlaylistsPost -> PlaylistsPostStart(r)
    [] r.route = PlaylistSongsPost -> Await(r, "playlistSongInsert")
    [] r.route = MePlaylists -> Await(r, "mePlaylists")

\* What supabase.auth.getUser(token) can return, as {error, data.user}: an
\* error (a token the provider does not know, an expired one, a failed
\* call), no error and no user, or the token's user.
GetUserResults(tok) ==
  {[error |-> TRUE, user |-> NoUser], [error |-> FALSE, user |-> NoUser]} \cup
  (IF TokenUser(tok.val) # NoUser
   THEN {[error |-> FALSE, user |-> TokenUser(tok.val)]}
   ELSE {})

\* authenticateUser from its await on.
AfterGetUserNoCheck(r, res) ==
  HandlerStart([r EXCEPT !.auth = res, !.user = res.user])

AfterGetUser(r, res) ==
  IF res.error \/ res.user = NoUser
  THEN Answer([r EXCEPT !.auth = res], 401, "Invalid token")
  ELSE HandlerStart([r EXCEPT !.auth = res, !.user = res.user])

\* toggle-like after the song fetch: found is `!songError && songData`.
AfterSongFetchNoCheck(r, found) ==
  Await([r EXCEPT !.songData = found], "likeLookup")

AfterSongFetch(r, found) ==
  IF ~found
  THEN Answer(r, 404, "Song not found")
  ELSE Await([r EXCEPT !.songData = TRUE], "likeLookup")

\* toggle-like after the like lookup.  .single() gives the row when exactly
\* one matches and the error PGRST116 with no data otherwise (no row, or
\* several); a failed call gives another error.
AfterLikeLookup(r, ok, rows) ==
  IF ~ok
  THEN Answer(r, 500, "remote error")
  ELSE IF rows # 1
       THEN Await([r EXCEPT !.likeData = FALSE, !.liked = TRUE], "insertLike")
       ELSE Await([r EXCEPT !.likeData = TRUE, !.liked = FALSE], "deleteLike")

\* toggle-like after the recount: count is null when the call failed.
AfterCount(r, ok, n) ==
  [Answer(r, 200, "") EXCEPT !.count = IF ok THEN n ELSE -1]

\* The upload handlers' bucket and object-name prefix.
BucketOf(route) ==
  CASE route = UploadAudio -> "songs"
    [] route = UploadReelAudio -> "reel_audio"
    [] route = UploadCover -> "covers"

PrefixOf(route) == IF route = UploadCover THEN "cover_" ELSE "song_"

\* An upload handler up to its await.
UploadStartNoCheck(r) ==
  Await([r EXCEPT !.fileName =
           [prefix |-> PrefixOf(r.route), time |-> now, ext |-> r.file]],
        "upload")

UploadStart(r) ==
  IF r.file = NoFile
  THEN Answer(r, 400, IF r.route = UploadCover THEN "No cover file uploaded"
                                                ELSE "No audio file uploaded")
  ELSE Await([r EXCEPT !.fileName =
                [prefix |-> PrefixOf(r.route), time |-> now, ext |-> r.file]],
             "upload")

\* POST /songs up to its await.
SongsPostStartNoCover(r) ==
  IF Missing(r.body.title) \/ Missing(r.body.artist)
       \/ Missing(r.body.audio_url)
  THEN Answer(r, 400, "Title, Artist, audio_url, and cover_url are required")
  ELSE Await(r, "songsInsert")

SongsPostStart(r) ==
  IF Missing(r.body.title) \/ Missing(r.body.artist)
       \/ Missing(r.body.audio_url) \/ Missing(r.body.cover_url)
  THEN Answer(r, 400, "Title, Artist, audio_url, and cover_url are required")
  ELSE Await(r, "songsInsert")

\* The first handler of a route, up to its first await or to its answer.
Start(r) ==
  CASE r.route \in ProtectedRoutes -> AuthStart(r)
    [] r.route \in UploadRoutes -> UploadStart(r)
    [] r.route = SongsPost -> SongsPostStart(r)
    [] r.route = SongsGet -> Await(r, "songsSelect")
    [] r.route = LikesCount -> Await(r, "likesCount")

\* --------------------------------------------------------------- actions
\* Slot s takes the segment's result r: the other requests are untouched.
Resume(s, r) ==
  /\ reqs' = [reqs EXCEPT ![s] = r]
  /\ UNCHANGED likes0

\* A request arrives in a free slot (one whose request, if any, has been
\* answered) and runs up to its first await.
Receive(s, route, hdr, songId, body, file) ==
  /\ ~InFlight(s)
  /\ Resume(s, Start(NewReq(route, hdr, songId, body, file)))
  /\ UNCHANGED <<stores, now>>

ReceiveProtected(s, routes, hdrs) ==
  \E route \in routes, hdr \in hdrs :
    \E songId \in IF route = ToggleLike THEN SongIds ELSE {0},
       name \in IF route = PlaylistsPost THEN Vals ELSE {"undefined"} :
      Receive(s, route, hdr, songId, [NoBody EXCEPT !.name = name], NoFile)

ReceiveSongsPost(s) ==
  \E title, artist, audio_url, cover_url \in Vals :
    Receive(s, SongsPost, NoHeader, 0,
            [NoBody EXCEPT !.title = title, !.artist = artist,
                           !.audio_url = audio_url, !.cover_url = cover_url],
            NoFile)

ReceiveSongsGet(s) == Receive(s, SongsGet, NoHeader, 0, NoBody, NoFile)

ReceiveLikesCount(s) ==
  \E songId \in SongIds :
    Receive(s, LikesCount, NoHeader, songId, NoBody, NoFile)

ReceiveUpload(s) ==
  \E route \in UploadRoutes, file \in Files :
    Receive(s, route, NoHeader, 0, NoBody, file)

\* await supabase.auth.getUser(token), and the middleware's rest
GetUser(s) ==
  /\ reqs[s].pc = "getUser"
  /\ \E res \in GetUserResults(TokenOf(reqs[s].hdr)) :
       Resume(s, AfterGetUser(Called(reqs[s], "auth.getUser"), res))
  /\ UNCHANGED <<stores, now>>

\* await supabase.auth.signOut()
SignOut(s) ==
  /\ reqs[s].pc = "signOut"
  /\ \E ok \in BOOLEAN :
       Resume(s, Answer(Called(reqs[s], "auth.signOut"),
                        IF ok THEN 200 ELSE 500,
                        IF ok THEN "" ELSE "remote error"))
  /\ UNCHANGED <<stores, now>>

\* await ...from("songs_metadata").select("*").eq("id", songId).single()
SongFetch(s) ==
  /\ reqs[s].pc = "songFetch"
  /\ \E ok \in BOOLEAN :
       Resume(s, AfterSongFetch(Called(reqs[s], "songs_metadata.select"),
                                ok /\ reqs[s].songId \in songs))
  /\ UNCHANGED <<stores, now>>

\* await ...from("liked_songs").select("*").eq(user_id).eq(song_id).single()
LikeLookup(s) ==
  /\ reqs[s].pc = "likeLookup"
  /\ \E ok \in BOOLEAN :
       Resume(s, AfterLikeLookup(Called(reqs[s], "liked_songs.select"), ok,
                                 likes[<<reqs[s].user, reqs[s].songId>>]))
  /\ UNCHANGED <<stores, now>>

\* await ...from("liked_songs").insert([{user_id, song_id}]): its result is
\* not looked at.
InsertLike(s) ==
  /\ reqs[s].pc = "insertLike"
  /\ LET p == <<reqs[s].user, reqs[s].songId>>
     IN \E ok \in BOOLEAN :
          /\ ok => likes[p] < MaxRows
          /\ likes' = IF ok THEN [likes EXCEPT ![p] = @ + 1] ELSE likes
          /\ Resume(s, Await([Called(reqs[s], "liked_songs.insert")
                                EXCEPT !.wrote = ok], "count"))
  /\ UNCHANGED <<songs, playlists, playlist_songs, buckets, now>>

\* await ...from("liked_songs").delete().eq(user_id).eq(song_id): its result
\* is not looked at.
DeleteLike(s) ==
  /\ reqs[s].pc = "deleteLike"
  /\ LET p == <<reqs[s].user, reqs[s].songId>>
     IN \E ok \in BOOLEAN :
          /\ likes' = IF ok THEN [likes EXCEPT ![p] = 0] ELSE likes
          /\ Resume(s, Await([Called(reqs[s], "liked_songs.delete")
                                EXCEPT !.wrote = ok], "count"))
  /\ UNCHANGED <<songs, playlists, playlist_songs, buckets, now>>

\* await ...from("liked_songs").select("*", {count, head}).eq(song_id), and
\* the answer
CountLikes(s) ==
  /\ reqs[s].pc = "count"
  /\ \E ok \in BOOLEAN :
       Resume(s, AfterCount(Called(reqs[s], "liked_songs.count"), ok,
                            SongLikes(likes, reqs[s].songId)))
  /\ UNCHANGED <<stores, now>>

\* GET /songs/:songId/likes-count: the count query and the answer
LikesCountQuery(s) ==
  /\ reqs[s].pc = "likesCount"
  /\ \E ok \in BOOLEAN :
       Resume(s, IF ok
                 THEN [Answer(Called(reqs[s], "liked_songs.count"), 200, "")
                         EXCEPT !.count = SongLikes(likes, reqs[s].songId)]
                 ELSE Answer(Called(reqs[s], "liked_songs.count"), 400,
                             "remote error"))
  /\ UNCHANGED <<stores, now>>

\* GET /me/likes: the query and the answer
MeLikesQuery(s) ==
  /\ reqs[s].pc = "meLikes"
  /\ \E ok \in BOOLEAN :
       Resume(s, Answer(Called(reqs[s], "liked_songs.select"),
                        IF ok THEN 200 ELSE 400,
                        IF ok THEN "" ELSE "remote error"))
  /\ UNCHANGED <<stores, now>>

\* POST /playlists: the insert and the answer
PlaylistInsert(s) ==
  /\ reqs[s].pc = "playlistInsert"
  /\ \E ok \in BOOLEAN :
       /\ ok => playlists[reqs[s].user] < MaxPlaylists
       /\ playlists' = IF ok THEN [playlists EXCEPT ![reqs[s].user] = @ + 1]
                             ELSE playlists
       /\ Resume(s, Answer(Called(reqs[s], "playlists.insert"),
                           IF ok THEN 200 ELSE 400,
                           IF ok THEN "" ELSE "remote error"))
  /\ UNCHANGED <<songs, likes, playlist_songs, buckets, now>>

\* POST /playlists/:id/songs: the insert and the answer
PlaylistSongInsert(s) ==
  /\ reqs[s].pc = "playlistSongInsert"
  /\ \E ok \in BOOLEAN :
       /\ ok => playlist_songs < MaxPlaylists
       /\ playlist_songs' = IF ok THEN playlist_songs + 1 ELSE playlist_songs
       /\ Resume(s, Answer(Called(reqs[s], "playlist_songs.insert"),
                           IF ok THEN 200 ELSE 400,
                           IF ok THEN "" ELSE "remote error"))
  /\ UNCHANGED <<songs, likes, playlists, buckets, now>>

\* GET /me/playlists: the query and the answer
MePlaylistsQuery(s) ==
  /\ reqs[s].pc = "mePlaylists"
  /\ \E ok \in BOOLEAN :
       Resume(s, Answer(Called(reqs[s], "playlists.select"),
                        IF ok THEN 200 ELSE 400,
                        IF ok THEN "" ELSE "remote error"))
  /\ UNCHANGED <<stores, now>>

\* GET /songs: the query and the answer
SongsSelect(s) ==
  /\ reqs[s].pc = "songsSelect"
  /\ \E ok \in BOOLEAN :
       Resume(s, Answer(Called(reqs[s], "songs_metadata.select"),
                        IF ok THEN 200 ELSE 500,
                        IF ok THEN "" ELSE "remote error"))
  /\ UNCHANGED <<stores, now>>

\* POST /songs: the insert (the store assigns the next id) and the answer
SongsInsert(s) ==
  /\ reqs[s].pc = "songsInsert"
  /\ \E ok \in BOOLEAN :
       /\ ok => Cardinality(songs) < MaxSongs
       /\ songs' = IF ok THEN songs \cup {Cardinality(songs) + 1} ELSE songs
       /\ Resume(s, Answer(Called(reqs[s], "songs_metadata.insert"),
                           IF ok THEN 201 ELSE 500,
                           IF ok THEN "" ELSE "remote error"))
  /\ UNCHANGED <<likes, playlists, playlist_songs, buckets, now>>

\* An upload handler: storage.from(bucket).upload(fileName, ..., {upsert}),
\* then getPublicUrl(fileName) and the answer
StorageUpload(s) ==
  /\ reqs[s].pc = "upload"
  /\ LET b == BucketOf(reqs[s].route)
     IN \E ok \in BOOLEAN :
          /\ buckets' = IF ok
                        THEN [buckets EXCEPT ![b] = @ \cup {reqs[s].fileName}]
                        ELSE buckets
          /\ Resume(s, IF ok
                       THEN Answer(Called(Called(reqs[s], "storage.upload"),
                                          "storage.getPublicUrl"), 200, "")
                       ELSE Answer(Called(reqs[s], "storage.upload"), 500,
                                   "remote error"))
  /\ UNCHANGED <<songs, likes, playlists, playlist_songs, now>>

\* The clock advances.
Tick ==
  /\ now < MaxNow
  /\ now' = now + 1
  /\ UNCHANGED <<reqs, stores, likes0>>

\* -------------------------------------------------------- specifications
\* The tokens a client that holds a session sends, and no header at all.
SessionHeaders ==
  {NoHeader, HeaderOf(<<Bearer, "t1">>), HeaderOf(<<Bearer, "t2">>)}

\* The steps of the like workflow.
LikeSteps(s) ==
  \/ GetUser(s)
  \/ SongFetch(s)
  \/ LikeLookup(s)
  \/ InsertLike(s)
  \/ DeleteLike(s)
  \/ CountLikes(s)

\* The handlers of the other protected routes, from their awaits on.
ProtectedSteps(s) ==
  \/ SignOut(s)
  \/ MeLikesQuery(s)
  \/ PlaylistInsert(s)
  \/ PlaylistSongInsert(s)
  \/ MePlaylistsQuery(s)

\* The handlers of the public routes over the tables.
PublicSteps(s) ==
  \/ ReceiveSongsGet(s)
  \/ ReceiveSongsPost(s)
  \/ ReceiveLikesCount(s)
  \/ SongsSelect(s)
  \/ SongsInsert(s)
  \/ LikesCountQuery(s)

\* The like workflow: toggle-like requests, served concurrently.
LikeNext ==
  \E s \in Slots :
    \/ ReceiveProtected(s, {ToggleLike}, SessionHeaders)
    \/ LikeSteps(s)

SpecLike == Init /\ [][LikeNext]_vars

\* A client sends a toggle-like, waits for its answer and sends a second
\* one; nothing else is sent.
TwiceNext ==
  \/ /\ reqs[1].pc = "idle"
     /\ reqs[2].pc = "idle"
     /\ ReceiveProtected(1, {ToggleLike}, SessionHeaders)
  \/ /\ reqs[1].pc = "done"
     /\ reqs[2].pc = "idle"
     /\ ReceiveProtected(2, {ToggleLike}, SessionHeaders)
  \/ LikeSteps(1)
  \/ LikeSteps(2)

SpecTwice == InitAny /\ [][TwiceNext]_vars

\* The protected routes behind authenticateUser, a request at a time.
AuthNext ==
  \/ ReceiveProtected(1, ProtectedRoutes, Headers)
  \/ LikeSteps(1)
  \/ ProtectedSteps(1)

SpecAuth == Init /\ [][AuthNext]_vars

\* The public routes over the tables, a request at a time.
PublicNext == PublicSteps(1)

SpecPublic == Init /\ [][PublicNext]_vars

\* The routes over the tables, a request at a time.
DataNext ==
  \/ ReceiveProtected(1, ProtectedRoutes, SessionHeaders)
  \/ LikeSteps(1)
  \/ ProtectedSteps(1)
  \/ PublicSteps(1)

SpecData == Init /\ [][DataNext]_vars

\* The upload routes, a request at a time.
UploadNext ==
  \/ ReceiveUpload(1)
  \/ StorageUpload(1)
  \/ Tick

SpecUpload == Init /\ [][UploadNext]_vars

\* The whole server: every route, served concurrently.
Next ==
  \/ \E s \in Slots :
       \/ ReceiveProtected(s, ProtectedRoutes, Headers)
       \/ LikeSteps(s)
       \/ ProtectedSteps(s)
       \/ PublicSteps(s)
       \/ ReceiveUpload(s)
       \/ StorageUpload(s)
  \/ Tick

Spec == Init /\ [][Next]_vars

\* ----------------------------------------------------------------- claims
\* The remote calls a toggle-like handler makes on the liked_songs table.
LikeCalls ==
  {"liked_songs.select", "liked_songs.insert", "liked_songs.delete",
   "liked_songs.count"}

\* The calls a request has made, as a set.
CallsOf(r) == {r.calls[i] : i \in 1..Len(r.calls)}

\* C1: two consecutive toggle-like calls by one user for one song, both
\* answered 200 and with no other request in between, leave the (user, song)
\* row as it was before the first; the second's `liked` is the negation of
\* the first's, and the second's likes_count is the number of likes the song
\* had before the first.
C1_TwoTogglesRestore ==
  LET a == reqs[1]
      b == reqs[2]
      p == <<a.user, a.songId>>
  IN (/\ a.pc = "done" /\ a.status = 200
      /\ b.pc = "done" /\ b.status = 200
      /\ b.user = a.user /\ b.songId = a.songId)
     => /\ (likes[p] > 0) <=> (likes0[p] > 0)
        /\ b.liked = ~a.liked
        /\ b.count = SongLikes(likes0, a.songId)

\* C2: a toggle-like call that runs alone answers liked = true exactly when
\* no (user, song) row existed before it, and then the row exists and
\* likes_count is the earlier count plus 1; it answers liked = false exactly
\* when the row existed, and then the row is gone and likes_count is the
\* earlier count minus 1.
C2_ToggleFollowsRow ==
  LET a == reqs[1]
      p == <<a.user, a.songId>>
  IN (a.pc = "done" /\ a.status = 200 /\ reqs[2].pc = "idle")
     => /\ a.liked <=> (likes0[p] = 0)
        /\ a.liked => /\ likes[p] > 0
                      /\ a.count = SongLikes(likes0, a.songId) + 1
        /\ ~a.liked => /\ likes[p] = 0
                       /\ a.count = SongLikes(likes0, a.songId) - 1

\* C3: a toggle-like request for a song id the songs table does not hold is
\* answered 404 "Song not found" once the song fetch returns, and makes no
\* call on liked_songs: no lookup, insert, delete or recount.  (Songs are
\* never removed, so a song absent now was absent when it was fetched.)
C3_AbsentSongIs404 ==
  \A s \in Slots :
    LET r == reqs[s]
    IN (r.route = ToggleLike /\ r.songId \notin songs)
       => /\ r.pc \in {"getUser", "songFetch", "done"}
          /\ CallsOf(r) \cap LikeCalls = {}
          /\ ~r.wrote
          /\ "songs_metadata.select" \in CallsOf(r)
               => /\ r.pc = "done"
                  /\ r.status = 404
                  /\ r.error = "Song not found"

C3_Witness ==
  \E s \in Slots :
    /\ reqs[s].route = ToggleLike
    /\ reqs[s].songId \notin songs
    /\ reqs[s].pc = "done"
    /\ reqs[s].status = 404
    /\ reqs[s].calls = <<"auth.getUser", "songs_metadata.select">>

\* C4: on every protected route a request with no Authorization header is
\* answered 401 and no remote call is made for it.
C4_NoHeaderIs401 ==
  \A s \in Slots :
    LET r == reqs[s]
    IN (r.route \in ProtectedRoutes /\ ~r.hdr.present)
       => /\ r.pc = "done"
          /\ r.status = 401
          /\ r.error = "Missing auth token"
          /\ r.calls = <<>>

C4_Witness ==
  \E s \in Slots :
    /\ reqs[s].route = PlaylistSongsPost
    /\ ~reqs[s].hdr.present
    /\ reqs[s].status = 401

\* Whether the route handler of a protected request has run: the request is
\* at one of the handler's awaits, or was answered by the handler, or has
\* made a call after the middleware's.
HandlerRan(r) ==
  \/ r.pc \notin {"idle", "getUser", "done"}
  \/ r.pc = "done" /\ r.status # 401
  \/ Len(r.calls) > 1

\* C5: on every protected route the handler runs only after the identity
\* provider resolved the presented token to a user, and runs with that user
\* as req.user; when the provider returns an error or no user the answer is
\* 401 "Invalid token" and the handler never runs, so the request makes no
\* call on a table.
C5_HandlerAfterAuth ==
  \A s \in Slots :
    LET r == reqs[s]
    IN r.route \in ProtectedRoutes
       => /\ HandlerRan(r)
               => /\ r.calls[1] = "auth.getUser"
                  /\ ~r.auth.error
                  /\ r.auth.user \in Users
                  /\ r.auth.user = TokenUser(TokenOf(r.hdr).val)
                  /\ r.user = r.auth.user
          /\ (r.calls # <<>> /\ (r.auth.error \/ r.auth.user = NoUser))
               => /\ r.pc = "done"
                  /\ r.status = 401
                  /\ r.error = "Invalid token"
                  /\ r.calls = <<"auth.getUser">>

C5_Witness ==
  /\ reqs[1].route = ToggleLike
  /\ reqs[1].hdr = HeaderOf(<<Bearer, "t2">>)
  /\ reqs[1].user = "u2"
  /\ reqs[1].pc = "done"
  /\ reqs[1].status = 200

\* The fields POST /songs requires.
RequiredFields == {"title", "artist", "audio_url", "cover_url"}

\* C6: a POST /songs request whose body lacks one of title, artist,
\* audio_url, cover_url, or holds an empty value for it, is answered 400 and
\* issues no insert on the songs table.
C6_MissingFieldIs400 ==
  \A s \in Slots :
    LET r == reqs[s]
    IN (r.route = SongsPost /\ \E f \in RequiredFields : Missing(r.body[f]))
       => /\ r.pc = "done"
          /\ r.status = 400
          /\ r.calls = <<>>

C6_Witness ==
  \E s \in Slots :
    /\ reqs[s].route = SongsPost
    /\ reqs[s].body.cover_url = ""
    /\ \A f \in RequiredFields \ {"cover_url"} : reqs[s].body[f] = "v"
    /\ reqs[s].status = 400

\* C7: a failure the remote data store reports is answered 500 by GET
\* /songs/:songId/likes-count, GET /me/likes, POST /playlists, POST
\* /playlists/:id/songs and GET /me/playlists, as by GET /songs and POST
\* /songs.
C7_StoreFailureIs500 ==
  \A s \in Slots :
    LET r == reqs[s]
    IN (/\ r.route \in {LikesCount, MeLikes, PlaylistsPost, PlaylistSongsPost,
                        MePlaylists, SongsGet, SongsPost}
        /\ r.pc = "done"
        /\ r.error = "remote error")
       => r.status = 500

\* C8: under any interleaving of concurrent toggle-like requests the
\* liked_songs table holds at most one row for any (user_id, song_id).
C8_AtMostOneRow == \A p \in Users \X SongIds : likes[p] <= 1

\* C10: a toggle-like request answered 200 made its write: the insert
\* (liked = true) or the delete (liked = false) of the row succeeded.
C10_AnsweredMeansWritten ==
  \A s \in Slots :
    LET r == reqs[s]
    IN (r.route = ToggleLike /\ r.pc = "done" /\ r.status = 200) => r.wrote

\* C9: an upload request with no file in its multipart field is answered 400
\* and makes no storage call: no object name is made, nothing is uploaded,
\* no public URL is asked for.
C9_NoFileIs400 ==
  \A s \in Slots :
    LET r == reqs[s]
    IN (r.route \in UploadRoutes /\ r.file = NoFile)
       => /\ r.pc = "done"
          /\ r.status = 400
          /\ r.error = (IF r.route = UploadCover THEN "No cover file uploaded"
                                                 ELSE "No audio file uploaded")
          /\ r.calls = <<>>
          /\ r.fileName = NoName

C9_Witness ==
  \E s \in Slots :
    /\ reqs[s].route = UploadReelAudio
    /\ reqs[s].file = NoFile
    /\ reqs[s].status = 400
    /\ buckets["songs"] # {}

====
